---- MODULE Spec2Model ----
(***************************************************************************)
(* The IR layer of scrap: the opcode catalog, op_arity, the branch         *)
(* classifiers, the arity-checked Instruction constructors, the Function   *)
(* container, and the demo main that hand-assembles one Function.          *)
(*                                                                         *)
(* The IR is a library, so the model runs it under one of four drivers,    *)
(* chosen in Init:                                                         *)
(*   "main"   the statements of main() in main.cc, in order;               *)
(*   "ctor"   a caller of the four Instruction constructors, any opcode    *)
(*            with any operand count;                                      *)
(*   "build"  a front-end appending to the three vectors of a Function;    *)
(*   "query"  a consumer calling op_arity and the classifiers.             *)
(* The Makefile compiles without NDEBUG, so every assert is live: a failed *)
(* assert aborts the process (status = "aborted") and nothing runs after.  *)
(***************************************************************************)
EXTENDS Integers, Sequences, FiniteSets, TLC

VARIABLES driver, pc, status, func, call, inst, q

vars == <<driver, pc, status, func, call, inst, q>>

(* Bounds of the model *)
MaxArg == 1      \* operands are drawn from 0..MaxArg
MaxText == 2     \* the front-end appends at most MaxText instructions
MaxPool == 1     \* ... and at most MaxPool constants to each pool
MaxConst == 1    \* integer constants are drawn from 1..MaxConst

(* enum class Opcode *)
Opcode ==
    { "NOP", "PHI", "MOV", "CMOV",
      "JTARG", "JLOOP", "JFOR",
      "JUMP", "JT", "JF",
      "ASSERT", "ATYPE",
      "EQ", "NEQ", "IN", "NIN", "LT", "GEQ", "GT", "LEQ",
      "AND", "NOT2", "OR", "XOR", "NOT", "BOOL",
      "SARG", "CALL", "RET", "RETV", "TCALL",
      "INTK", "STRK", "BOOLK", "TYPEK",
      "ADD", "SUB", "MUL", "FDIV", "MOD", "POW", "DIV", "MIN", "MAX",
      "NEG", "ABS", "FLOOR", "CEIL",
      "BITAND", "BITOR", "BITXOR", "BITANOT", "BITSHR", "BITSHL", "BITNOT",
      "CAT", "FMT",
      "GETI", "SETI", "DELI",
      "LEN" }

(* Mutant of op_arity: JFOR falls into the default case. *)
op_arity_JforDefault(op) ==
    CASE op \in { "NOP", "JTARG", "JLOOP", "SARG", "RETV" } -> 0
      [] op \in { "MOV", "JUMP", "ASSERT", "NOT", "BOOL", "RET", "INTK",
                  "STRK", "BOOLK", "TYPEK", "NEG", "ABS", "FLOOR", "CEIL",
                  "BITNOT", "LEN" } -> 1
      [] op \in { "CMOV", "SETI" } -> 3
      [] OTHER -> 2

(* int op_arity(Opcode op): the switch *)
op_arity(op) ==
    CASE op \in { "NOP", "JTARG", "JLOOP", "SARG", "RETV" } -> 0
      [] op \in { "MOV", "JUMP", "ASSERT", "NOT", "BOOL", "RET", "INTK",
                  "STRK", "BOOLK", "TYPEK", "NEG", "ABS", "FLOOR", "CEIL",
                  "BITNOT", "LEN" } -> 1
      [] op \in { "CMOV", "JFOR", "SETI" } -> 3
      [] OTHER -> 2

(* Mutant of op_is_cond_branch: JFOR treated as a plain target. *)
op_is_cond_branch_NoJfor(op) == op = "JT" \/ op = "JF"

(* inline bool op_is_cond_branch(Opcode op) *)
op_is_cond_branch(op) == op = "JT" \/ op = "JF" \/ op = "JFOR"

(* Mutant of op_is_uncond_branch: every jump-from opcode counted. *)
op_is_uncond_branch_AnyJump(op) == op = "JUMP" \/ op = "JT"

(* inline bool op_is_uncond_branch(Opcode op) *)
op_is_uncond_branch(op) == op = "JUMP"

(* Mutant of op_has_result: an indexed store counted as a value. *)
op_has_result_Seti(op) ==
    op \in { "PHI", "MOV", "CMOV", "SETI",
             "EQ", "NEQ", "IN", "NIN", "LT", "GEQ", "GT", "LEQ",
             "AND", "NOT2", "OR", "XOR", "NOT", "BOOL", "CALL",
             "INTK", "STRK", "BOOLK", "TYPEK",
             "ADD", "SUB", "MUL", "FDIV", "MOD", "POW", "DIV", "MIN", "MAX",
             "NEG", "ABS", "FLOOR", "CEIL",
             "BITAND", "BITOR", "BITXOR", "BITANOT", "BITSHR", "BITSHL",
             "BITNOT", "CAT", "FMT", "GETI", "LEN" }

(* bool op_has_result(Opcode op): declared in ir.h, defined nowhere in the *)
(* sources; the mapping is the one the specification describes: value      *)
(* merges and moves, predicates, boolean operations, the non-tail call,    *)
(* constants, arithmetic, bitwise and string operations, the indexed read  *)
(* and len yield a register value; nothing else does.                      *)
op_has_result(op) ==
    op \in { "PHI", "MOV", "CMOV",
             "EQ", "NEQ", "IN", "NIN", "LT", "GEQ", "GT", "LEQ",
             "AND", "NOT2", "OR", "XOR", "NOT", "BOOL", "CALL",
             "INTK", "STRK", "BOOLK", "TYPEK",
             "ADD", "SUB", "MUL", "FDIV", "MOD", "POW", "DIV", "MIN", "MAX",
             "NEG", "ABS", "FLOOR", "CEIL",
             "BITAND", "BITOR", "BITXOR", "BITANOT", "BITSHR", "BITSHL",
             "BITNOT", "CAT", "FMT", "GETI", "LEN" }

(* What a constructor call leaves when its assert fails: no Instruction. *)
AssertFail == [op |-> "<abort>", arg |-> (0 :> 0 @@ 1 :> 0 @@ 2 :> 0)]

(* Instruction(Opcode op_) *)
Instruction0(op_) ==
    IF op_arity(op_) = 0
    THEN [op |-> op_, arg |-> (0 :> 0 @@ 1 :> 0 @@ 2 :> 0)]
    ELSE AssertFail

(* Mutant of Instruction1: the assert only bounds the arity from above. *)
Instruction1_AtMost(op_, arg0) ==
    IF op_arity(op_) <= 1
    THEN [op |-> op_, arg |-> (0 :> arg0 @@ 1 :> 0 @@ 2 :> 0)]
    ELSE AssertFail

(* Instruction(Opcode op_, uint16_t arg0) *)
Instruction1(op_, arg0) ==
    IF op_arity(op_) = 1
    THEN [op |-> op_, arg |-> (0 :> arg0 @@ 1 :> 0 @@ 2 :> 0)]
    ELSE AssertFail

(* Mutant of Instruction2: the two operands stored in the wrong order. *)
Instruction2_Swapped(op_, arg0, arg1) ==
    IF op_arity(op_) = 2
    THEN [op |-> op_, arg |-> (0 :> arg1 @@ 1 :> arg0 @@ 2 :> 0)]
    ELSE AssertFail

(* Instruction(Opcode op_, uint16_t arg0, uint16_t arg1) *)
Instruction2(op_, arg0, arg1) ==
    IF op_arity(op_) = 2
    THEN [op |-> op_, arg |-> (0 :> arg0 @@ 1 :> arg1 @@ 2 :> 0)]
    ELSE AssertFail

(* Instruction(Opcode op_, uint16_t arg0, uint16_t arg1, uint16_t arg2) *)
Instruction3(op_, arg0, arg1, arg2) ==
    IF op_arity(op_) = 3
    THEN [op |-> op_, arg |-> (0 :> arg0 @@ 1 :> arg1 @@ 2 :> arg2)]
    ELSE AssertFail

(* Overload resolution: the constructor chosen by the operand count. *)
Construct(op_, args) ==
    CASE Len(args) = 0 -> Instruction0(op_)
      [] Len(args) = 1 -> Instruction1(op_, args[1])
      [] Len(args) = 2 -> Instruction2(op_, args[1], args[2])
      [] OTHER -> Instruction3(op_, args[1], args[2], args[3])

(* struct Function, after `Function func;` and the two counts set to 0 *)
EmptyFunction ==
    [num_pos_args |-> 0, num_upvalues |-> 0,
     strk_table |-> <<>>, intk_table |-> <<>>, text |-> <<>>]

(* std::vector<T>::operator[]: positions count from 0 *)
At(v, p) == v[p + 1]

NoCall == [fn |-> "none", op |-> "NOP", args |-> <<>>, str |-> ""]
NoInst == [op |-> "<none>", arg |-> (0 :> 0 @@ 1 :> 0 @@ 2 :> 0)]
NoQuery == [op |-> "<none>", arity |-> 0, cond |-> FALSE, uncond |-> FALSE,
            result |-> FALSE]

Init ==
    /\ driver \in { "main", "ctor", "build", "query" }
    /\ pc = IF driver = "main" THEN "L18" ELSE "api"
    /\ status = "running"
    /\ func = EmptyFunction
    /\ call = NoCall
    /\ inst = NoInst
    /\ q = NoQuery

----
(* main(): one action per statement *)

MainIntk(here, next, v) ==
    /\ driver = "main" /\ pc = here /\ status = "running"
    /\ func' = [func EXCEPT !.intk_table = Append(@, v)]
    /\ pc' = next
    /\ UNCHANGED <<driver, status, call, inst, q>>

MainText(here, next, i) ==
    /\ driver = "main" /\ pc = here /\ status = "running"
    /\ IF i = AssertFail
       THEN status' = "aborted" /\ UNCHANGED <<func, pc>>
       ELSE /\ func' = [func EXCEPT !.text = Append(@, i)]
            /\ pc' = next
            /\ UNCHANGED status
    /\ UNCHANGED <<driver, call, inst, q>>

(* func.intk_table.push_back(1); *)
Main18 == MainIntk("L18", "L19", 1)

(* Mutant of Main19: the constant index off by one. *)
Main19_IndexOffByOne == MainText("L19", "L20", Instruction1("INTK", 1))

(* func.text.push_back(Instruction(Opcode::INTK, 0)); *)
Main19 == MainText("L19", "L20", Instruction1("INTK", 0))

(* Mutant of Main20: a different arithmetic opcode. *)
Main20_Sub == MainText("L20", "L23", Instruction2("SUB", 0, 0))

(* func.text.push_back(Instruction(Opcode::ADD, 0, 0)); *)
Main20 == MainText("L20", "L23", Instruction2("ADD", 0, 0))

(* func.intk_table.push_back(2); *)
Main23 == MainIntk("L23", "L24", 2)

(* func.text.push_back(Instruction(Opcode::INTK, 1)); *)
Main24 == MainText("L24", "L25", Instruction1("INTK", 1))

(* func.text.push_back(Instruction(Opcode::EQ, 2, 3)); *)
Main25 == MainText("L25", "L26", Instruction2("EQ", 2, 3))

(* func.text.push_back(Instruction(Opcode::ASSERT, 4)); *)
Main26 == MainText("L26", "L29", Instruction1("ASSERT", 4))

(* func.text.push_back(Instruction(Opcode::RET, 2)); *)
Main29 == MainText("L29", "done", Instruction1("RET", 2))

----
(* A caller of the Instruction constructors *)

NewInstruction(op_, args) ==
    /\ driver = "ctor" /\ status = "running"
    /\ call' = [fn |-> "Instruction", op |-> op_, args |-> args, str |-> ""]
    /\ LET r == Construct(op_, args)
       IN  IF r = AssertFail
           THEN inst' = NoInst /\ status' = "aborted"
           ELSE inst' = r /\ UNCHANGED status
    /\ UNCHANGED <<driver, pc, func, q>>

NewInstruction0 ==
    \E op_ \in Opcode : NewInstruction(op_, <<>>)

NewInstruction1 ==
    \E op_ \in Opcode : \E a0 \in 0..MaxArg : NewInstruction(op_, <<a0>>)

NewInstruction2 ==
    \E op_ \in Opcode : \E a0, a1 \in 0..MaxArg :
        NewInstruction(op_, <<a0, a1>>)

NewInstruction3 ==
    \E op_ \in Opcode : \E a0, a1, a2 \in 0..MaxArg :
        NewInstruction(op_, <<a0, a1, a2>>)

----
(* A front-end appending to a Function *)

StrkPushBack ==
    /\ driver = "build" /\ status = "running"
    /\ Len(func.strk_table) < MaxPool
    /\ \E s \in { "a" } :
        /\ func' = [func EXCEPT !.strk_table = Append(@, s)]
        /\ call' = [fn |-> "strk_table.push_back", op |-> "NOP",
                    args |-> <<>>, str |-> s]
    /\ UNCHANGED <<driver, pc, status, inst, q>>

IntkPushBack ==
    /\ driver = "build" /\ status = "running"
    /\ Len(func.intk_table) < MaxPool
    /\ \E v \in 1..MaxConst :
        /\ func' = [func EXCEPT !.intk_table = Append(@, v)]
        /\ call' = [fn |-> "intk_table.push_back", op |-> "NOP",
                    args |-> <<v>>, str |-> ""]
    /\ UNCHANGED <<driver, pc, status, inst, q>>

(* Mutant of TextPushBack: a constant-pool index is range-checked. *)
TextPushBack_Checked(op_, args) ==
    /\ driver = "build" /\ status = "running"
    /\ Len(func.text) < MaxText
    /\ call' = [fn |-> "text.push_back", op |-> op_, args |-> args, str |-> ""]
    /\ LET r == Construct(op_, args)
       IN  IF \/ r = AssertFail
              \/ (op_ = "STRK" /\ r.arg[0] >= Len(func.strk_table))
              \/ (op_ = "INTK" /\ r.arg[0] >= Len(func.intk_table))
           THEN status' = "aborted" /\ UNCHANGED func
           ELSE func' = [func EXCEPT !.text = Append(@, r)] /\ UNCHANGED status
    /\ UNCHANGED <<driver, pc, inst, q>>

(* func.text.push_back(Instruction(op_, args...)) *)
TextPushBack(op_, args) ==
    /\ driver = "build" /\ status = "running"
    /\ Len(func.text) < MaxText
    /\ call' = [fn |-> "text.push_back", op |-> op_, args |-> args, str |-> ""]
    /\ LET r == Construct(op_, args)
       IN  IF r = AssertFail
           THEN status' = "aborted" /\ UNCHANGED func
           ELSE func' = [func EXCEPT !.text = Append(@, r)] /\ UNCHANGED status
    /\ UNCHANGED <<driver, pc, inst, q>>

(* The front-end emits constant loads and returns, each through the 0- or  *)
(* the 1-operand constructor.                                              *)
BuildText ==
    \E op_ \in { "STRK", "INTK", "RETV" } :
        \E k \in 0..1 : \E args \in [1..k -> 0..MaxArg] :
            TextPushBack(op_, args)

----
(* A consumer querying the arity oracle and the classifiers *)

Query(op) ==
    /\ driver = "query" /\ status = "running"
    /\ q' = [op |-> op, arity |-> op_arity(op),
             cond |-> op_is_cond_branch(op),
             uncond |-> op_is_uncond_branch(op),
             result |-> op_has_result(op)]
    /\ UNCHANGED <<driver, pc, status, func, call, inst>>

QueryAny == \E op \in Opcode : Query(op)

----
Next ==
    \/ Main18 \/ Main19 \/ Main20 \/ Main23 \/ Main24
    \/ Main25 \/ Main26 \/ Main29
    \/ NewInstruction0 \/ NewInstruction1 \/ NewInstruction2 \/ NewInstruction3
    \/ StrkPushBack \/ IntkPushBack \/ BuildText
    \/ QueryAny

Spec == Init /\ [][Next]_vars

----
(* Properties *)

(* C1: for every opcode queried, op_arity is 0 exactly for NOP, JTARG,     *)
(* JLOOP, SARG, RETV; 1 exactly for the sixteen unary opcodes; 3 exactly   *)
(* for CMOV, JFOR, SETI; and 2 exactly for every other opcode.             *)
ArityPartition ==
    q.op \in Opcode =>
        /\ q.arity = 0 <=> q.op \in { "NOP", "JTARG", "JLOOP", "SARG", "RETV" }
        /\ q.arity = 1 <=>
             q.op \in { "MOV", "JUMP", "ASSERT", "NOT", "BOOL", "RET", "INTK",
                        "STRK", "BOOLK", "TYPEK", "NEG", "ABS", "FLOOR",
                        "CEIL", "BITNOT", "LEN" }
        /\ q.arity = 3 <=> q.op \in { "CMOV", "JFOR", "SETI" }
        /\ q.arity = 2 <=>
             q.op \in { "PHI", "JT", "JF", "ATYPE", "CALL", "TCALL", "GETI",
                        "DELI", "EQ", "NEQ", "IN", "NIN", "LT", "GEQ", "GT",
                        "LEQ", "AND", "NOT2", "OR", "XOR", "ADD", "SUB",
                        "MUL", "FDIV", "MOD", "POW", "DIV", "MIN", "MAX",
                        "BITAND", "BITOR", "BITXOR", "BITANOT", "BITSHR",
                        "BITSHL", "CAT", "FMT" }

ArityPartitionWitness == q.op = "SETI" /\ q.arity = 3

(* C2: a constructor call with k operands yields an Instruction iff        *)
(* k = op_arity(op); with any other k the assert fails, the process aborts *)
(* and there is no Instruction.                                            *)
CtorIffArity ==
    (driver = "ctor" /\ call.fn = "Instruction") =>
        /\ (status = "running" /\ inst # NoInst /\ inst.op = call.op)
             <=> Len(call.args) = op_arity(call.op)
        /\ Len(call.args) # op_arity(call.op)
             => (status = "aborted" /\ inst = NoInst)

CtorIffArityWitness ==
    /\ driver = "ctor" /\ status = "aborted"
    /\ call.op = "ADD" /\ Len(call.args) = 1

(* C3: the two branch classifiers are never both true; op_is_cond_branch   *)
(* is true exactly for JT, JF, JFOR, op_is_uncond_branch exactly for JUMP, *)
(* and both are false for every other opcode.                              *)
BranchPartition ==
    q.op \in Opcode =>
        /\ ~(q.cond /\ q.uncond)
        /\ q.cond <=> q.op \in { "JT", "JF", "JFOR" }
        /\ q.uncond <=> q.op = "JUMP"
        /\ q.op \notin { "JUMP", "JT", "JF", "JFOR" }
             => (~q.cond /\ ~q.uncond)

BranchPartitionWitness == q.op = "JUMP" /\ q.uncond /\ ~q.cond

(* C4: main never fails a constructor assert, can always take its next     *)
(* statement until it is done, and ends with text of length 6 with opcodes *)
(* INTK, ADD, INTK, EQ, ASSERT, RET, intk_table = [1, 2] and an empty      *)
(* strk_table.                                                             *)
DemoResult ==
    driver = "main" =>
        /\ status = "running"
        /\ pc # "done" => ENABLED Next
        /\ pc = "done" =>
             /\ Len(func.text) = 6
             /\ [p \in 1..Len(func.text) |-> func.text[p].op]
                  = <<"INTK", "ADD", "INTK", "EQ", "ASSERT", "RET">>
             /\ func.intk_table = <<1, 2>>
             /\ func.strk_table = <<>>

DemoResultWitness == driver = "main" /\ pc = "done" /\ status = "running"

(* C5, as claimed: a Function never holds a STRK i with                    *)
(* i >= len(strk_table).                                                   *)
StrkIndexChecked ==
    driver = "build" =>
        \A p \in 1..Len(func.text) :
            func.text[p].op = "STRK"
                => func.text[p].arg[0] < Len(func.strk_table)

(* C5, amended: appending a STRK whose index equals len(strk_table) is     *)
(* accepted unchecked: nothing aborts, the instruction is appended to text *)
(* and strk_table is left as it was.                                       *)
StrkOutOfRangeAccepted ==
    [][ ( /\ driver = "build"
          /\ call'.fn = "text.push_back"
          /\ call'.op = "STRK"
          /\ call'.args = <<Len(func.strk_table)>> )
        => /\ status' = "running"
           /\ func'.strk_table = func.strk_table
           /\ func'.text =
                Append(func.text,
                       [op |-> "STRK",
                        arg |-> (0 :> Len(func.strk_table) @@ 1 :> 0 @@ 2 :> 0)])
      ]_vars

StrkOutOfRangeAcceptedWitness ==
    /\ driver = "build" /\ status = "running"
    /\ call.fn = "text.push_back" /\ call.op = "STRK"
    /\ \E p \in 1..Len(func.text) :
         /\ func.text[p].op = "STRK"
         /\ func.text[p].arg[0] >= Len(func.strk_table)

(* C6, as claimed: none of JTARG, JLOOP, JFOR is classified as a branch.   *)
TargetsNeverJump ==
    q.op \in { "JTARG", "JLOOP", "JFOR" } => (~q.cond /\ ~q.uncond)

(* C6, amended: JTARG and JLOOP are classified as neither kind of branch;  *)
(* JFOR is classified as a conditional branch and not as an unconditional  *)
(* one.                                                                    *)
TargetsClassified ==
    /\ q.op \in { "JTARG", "JLOOP" } => (~q.cond /\ ~q.uncond)
    /\ q.op = "JFOR" => (q.cond /\ ~q.uncond)

TargetsClassifiedWitness == q.op = "JFOR" /\ q.cond /\ ~q.uncond

(* C7: an opcode with a result is none of RET, RETV, JUMP, JT, JF, ASSERT, *)
(* SETI, DELI, JTARG, JLOOP, JFOR.                                         *)
HasResultExcludes ==
    (q.op \in Opcode /\ q.result) =>
        q.op \notin { "RET", "RETV", "JUMP", "JT", "JF", "ASSERT", "SETI",
                      "DELI", "JTARG", "JLOOP", "JFOR" }

HasResultExcludesWitness == q.op = "GETI" /\ q.result

(* C8: in the Function main builds, with the register of an instruction    *)
(* numbered by its position in text, every register operand of the         *)
(* instruction at position p names a position below p that holds an        *)
(* instruction with a result.  (The operand of a constant load is a pool   *)
(* index, not a register.)                                                 *)
DemoDefBeforeUse ==
    driver = "main" =>
        \A p \in 0..(Len(func.text) - 1) :
            LET i == At(func.text, p)
                regs == IF i.op \in { "INTK", "STRK", "BOOLK", "TYPEK" }
                        THEN {}
                        ELSE { i.arg[k] : k \in 0..(op_arity(i.op) - 1) }
            IN  \A r \in regs :
                    r < p /\ op_has_result(At(func.text, r).op)

(* C9: every statement of main leaves text and intk_table as they were or  *)
(* with one entry added at the end, and after it every INTK i in text has  *)
(* 0 <= i < len(intk_table).                                               *)
DemoIntkInRange ==
    [][ driver = "main" =>
          /\ \A t \in { "text", "intk_table", "strk_table" } :
               /\ Len(func'[t]) \in { Len(func[t]), Len(func[t]) + 1 }
               /\ SubSeq(func'[t], 1, Len(func[t])) = func[t]
          /\ \A p \in 1..Len(func'.text) :
               func'.text[p].op = "INTK" =>
                   /\ 0 <= func'.text[p].arg[0]
                   /\ func'.text[p].arg[0] < Len(func'.intk_table)
      ]_vars

DemoIntkInRangeWitness ==
    /\ driver = "main"
    /\ Len(func.intk_table) = 2
    /\ \E p \in 1..Len(func.text) :
         func.text[p].op = "INTK" /\ func.text[p].arg[0] = 1

(* C10: a constructed Instruction stores the opcode it was given, its      *)
(* operands in the order given, and 0 in every slot past the last operand. *)
CtorStoresOperands ==
    (driver = "ctor" /\ call.fn = "Instruction" /\ status = "running") =>
        /\ inst.op = call.op
        /\ \A i \in 0..2 :
             inst.arg[i] = IF i < Len(call.args) THEN call.args[i + 1] ELSE 0

CtorStoresOperandsWitness ==
    /\ driver = "ctor" /\ status = "running" /\ inst # NoInst
    /\ Len(call.args) = 2 /\ call.args[1] # call.args[2]

====
